---- MODULE Spec2Model ----
(***************************************************************************)
(* The emoji cache of ditto/db/emoji.py (EmojiCacheMixin): a pool of       *)
(* guilds with a fixed emoji capacity, the table Emoji (emoji_id,          *)
(* guild_id, last_fetched), the table UserEmoji (user_id, emoji_id), and    *)
(* the handlers _find_guild, create_emoji, create_user_emoji, fetch_emoji,  *)
(* fetch_user_emoji and delete_emoji.  Every handler is one action; what    *)
(* happens on the platform outside the bot (emoji uploaded or deleted by    *)
(* guild staff, time passing, a restart with another configuration) is the  *)
(* environment.                                                             *)
(*                                                                         *)
(* Further specifications follow the cache: the coroutines of the handlers  *)
(* step by step (Coroutines, Concurrent, Faulty), and the other code of the *)
(* bot, each part with a specification of its own: utils/strings.py         *)
(* _transpose (Transpose), the channel commands of cogs/core/info.py        *)
(* (ChannelInfo), utils/interactions.py (Interaction), the slash command    *)
(* timezone get of cogs/logging/timezone.py (TimezoneGet) and web/auth.py   *)
(* validate_login (Login).                                                  *)
(***************************************************************************)
EXTENDS Integers, Sequences, FiniteSets, TLC

\* ---- bounds of the model ------------------------------------------------
MaxId == 2
MaxClock == 1
MaxLeaveFree == 1
MaxRequests == 2
MaxCalls == 2
MaxItems == 8
MaxColumns == 4
MaxSends == 3

Guilds == {"A", "B"}
Users == {"u1"}
\* The coroutines that run handlers concurrently on the bot's event loop
Tasks == {"t1", "t2"}

\* user=None / emoji_id=None of the handlers, and the "no value" of a result
NoUser == "None"
NoId == 0
NoGuild == "None"
EmojiIds == 1..MaxId

VARIABLES
    emojis,      \* the platform: live emoji, records [id, guild_id, animated]
    Emoji,       \* table Emoji: records [emoji_id, guild_id, last_fetched]
    UserEmoji,   \* table UserEmoji: records [user_id, emoji_id]
    pool,        \* CONFIG.EMOJI.GUILDS
    leave_free,  \* CONFIG.EMOJI.LEAVE_FREE
    clock,       \* the current time
    next_id,     \* the id the platform gives the next emoji it creates
    call,        \* the last handler call: [name, user, emoji_id, evictee, absent]
    ret,         \* its result: [err, emoji, guild, caught]
    evicted,     \* the evictions _find_guild made during the call, in order
    touched,     \* whether the call acquired the store or asked the platform
    evictee,     \* the users whose emoji was evicted since their last fetch_user_emoji
    emoji_limits, \* guild.emoji_limit of every guild
    tasks,       \* the coroutines: each one's handler, position and locals
    transpose,   \* a call of strings._transpose: its arguments, position and locals
    ctx,         \* a channel command of cogs/core/info.py: its context, position and locals
    interaction, \* a discord.Interaction: whether its response is done, and what was sent on it
    TimeZones,   \* table TimeZones: the stored time zone of every user, or None
    slash,       \* the slash command timezone get: its arguments, position and locals
    login        \* a call of web/auth.py validate_login: the request, the answers, the outcome

\* The state of the emoji cache, and the state of the other parts of the bot
cache == <<emojis, Emoji, UserEmoji, pool, leave_free, clock, next_id,
           call, ret, evicted, touched, evictee, emoji_limits, tasks>>
others == <<transpose, ctx, interaction, TimeZones, slash, login>>

vars == <<cache, others>>

\* CONFIG.EMOJI.NOT_FOUND, the emoji returned for emoji_id None
_not_found_emoji == -1

\* guild.emoji_limit: the platform's limit of the guild, for static and for
\* animated emoji each
emoji_limit(guild) == emoji_limits[guild]

\* The limits of the two guilds: A is at the platform's second tier, B at the
\* first
Tiers == [guild \in Guilds |-> IF guild = "A" THEN 2 ELSE 1]

\* An animated emoji that guild A holds from the start; the bot creates static
\* emoji only
Animated == {[id |-> -1, guild_id |-> "A", animated |-> TRUE]}

\* ---- the state a handler works on, and what it yields --------------------
World(ems, E, UE) == [emojis |-> ems, Emoji |-> E, UserEmoji |-> UE]

Result(w, err, emoji, guild, ev, t) ==
    [w |-> w, err |-> err, emoji |-> emoji, guild |-> guild, evicted |-> ev, touched |-> t,
     caught |-> FALSE]

\* ---- platform and store primitives ---------------------------------------
\* self.get_emoji(emoji_id): the live emoji with that id, in any guild
get_emoji(ems, emoji_id) == {e \in ems : e.id = emoji_id}

\* Emoji.fetch_row(connection, emoji_id=emoji_id)
fetch_row(E, emoji_id) == {r \in E : r.emoji_id = emoji_id}

\* UserEmoji.fetch_row(connection, user_id=user.id)
fetch_user_row(UE, user) == {b \in UE : b.user_id = user}

\* fetch_oldest with the order turned round: a row with the greatest last_fetched
fetch_newest(E) == {r \in E : \A s \in E : r.last_fetched >= s.last_fetched}

\* Emoji.fetch_row(connection, order_by=(Emoji.last_fetched, "ASC")): a row
\* with the least last_fetched (any of them when several tie)
fetch_oldest(E) == {r \in E : \A s \in E : r.last_fetched <= s.last_fetched}

\* on_delete_emoji that leaves UserEmoji alone
on_delete_emoji_none(UE, emoji_id) == UE

\* What deleting an Emoji row does to UserEmoji: the rows that reference the
\* deleted emoji_id go with it.
on_delete_emoji(UE, emoji_id) == {b \in UE : b.emoji_id # emoji_id}

\* Emoji.delete_record(connection, record)
delete_record(w, record) ==
    [w EXCEPT !.Emoji = @ \ {record},
              !.UserEmoji = on_delete_emoji(@, record.emoji_id)]

\* total_free with the test on animated turned round
total_free_animated(guild, ems) ==
    emoji_limit(guild) - Cardinality({e \in ems : e.guild_id = guild /\ e.animated})

\* total_free counting only the emoji the bot created
total_free_own(guild, ems) ==
    emoji_limit(guild) - Cardinality({e \in ems : e.guild_id = guild /\ ~e.animated /\ e.id > 0})

\* ---- _find_guild (select_container) --------------------------------------
\* total_free = guild.emoji_limit - sum(not e.animated for e in guild.emojis)
total_free(guild, ems) ==
    emoji_limit(guild) - Cardinality({e \in ems : e.guild_id = guild /\ ~e.animated})

\* free_spaces with >= for >
free_spaces_geq(ems) == {guild \in pool : total_free(guild, ems) >= leave_free}

\* free_spaces: the configured guilds with total_free > CONFIG.EMOJI.LEAVE_FREE
free_spaces(ems) == {guild \in pool : total_free(guild, ems) > leave_free}

\* random_sample that always takes a guild with the most room
random_sample_fullest(fs, ems) ==
    {guild \in fs : \A other \in fs : total_free(guild, ems) >= total_free(other, ems)}

\* random.sample(list(free_spaces.keys()), counts=list(free_spaces.values()), k=1):
\* a guild is drawn with weight total_free, so any guild of positive weight can
\* come out and no other
random_sample(fs, ems) == {guild \in fs : total_free(guild, ems) > 0}

\* delete_emoji without the emoji.delete(): only the row goes
delete_emoji_keeps_emoji(w, emoji_id) ==
    LET rows == fetch_row(w.Emoji, emoji_id) IN
    IF rows = {}
    THEN Result(w, "ValueError", NoId, NoGuild, <<>>, TRUE)
    ELSE Result(delete_record(w, CHOOSE r \in rows : TRUE), "", NoId, NoGuild, <<>>, TRUE)

\* delete_emoji that takes a missing row for done
delete_emoji_idempotent(w, emoji_id) ==
    LET rows == fetch_row(w.Emoji, emoji_id) IN
    IF rows = {}
    THEN Result(w, "", NoId, NoGuild, <<>>, TRUE)
    ELSE LET record == CHOOSE r \in rows : TRUE
             w1 == [w EXCEPT !.emojis = @ \ get_emoji(@, emoji_id)]
         IN  Result(delete_record(w1, record), "", NoId, NoGuild, <<>>, TRUE)

\* delete_emoji that calls emoji.delete() without the test for None
delete_emoji_unguarded(w, emoji_id) ==
    LET rows == fetch_row(w.Emoji, emoji_id) IN
    IF rows = {}
    THEN Result(w, "ValueError", NoId, NoGuild, <<>>, TRUE)
    ELSE IF get_emoji(w.emojis, emoji_id) = {}
    THEN Result(w, "AttributeError", NoId, NoGuild, <<>>, TRUE)
    ELSE LET record == CHOOSE r \in rows : TRUE
             w1 == [w EXCEPT !.emojis = @ \ get_emoji(@, emoji_id)]
         IN  Result(delete_record(w1, record), "", NoId, NoGuild, <<>>, TRUE)

\* delete_emoji(emoji_id)
delete_emoji(w, emoji_id) ==
    LET rows == fetch_row(w.Emoji, emoji_id) IN
    IF rows = {}
    THEN Result(w, "ValueError", NoId, NoGuild, <<>>, TRUE)
    ELSE LET record == CHOOSE r \in rows : TRUE
             \* emoji = self.get_emoji(emoji_id); if emoji is not None: emoji.delete()
             w1 == [w EXCEPT !.emojis = @ \ get_emoji(@, emoji_id)]
         IN  Result(delete_record(w1, record), "", NoId, NoGuild, <<>>, TRUE)

\* What a call notes of an eviction: the row, and the users bound to its emoji
\* when it was evicted
Eviction(w, record) ==
    [row |-> record,
     owners |-> {b.user_id : b \in {x \in w.UserEmoji : x.emoji_id = record.emoji_id}}]

\* _find_guild(): ev is the evictions made so far by this call
RECURSIVE _find_guild(_, _)
_find_guild(w, ev) ==
    LET fs == free_spaces(w.emojis) IN
    IF fs # {}
    THEN {Result(w, "", NoId, guild, ev, TRUE) : guild \in random_sample(fs, w.emojis)}
    ELSE IF w.Emoji = {}
    THEN {Result(w, "RuntimeError", NoId, NoGuild, ev, TRUE)}
    ELSE UNION {
           LET d == delete_emoji(w, record.emoji_id) IN
           IF d.err # ""
           THEN {Result(d.w, d.err, NoId, NoGuild, ev, TRUE)}
           ELSE _find_guild(d.w, Append(ev, Eviction(w, record)))
           : record \in fetch_oldest(w.Emoji)}

\* ---- create_emoji, create_user_emoji -------------------------------------
\* create_emoji without the Emoji.insert
create_emoji_no_insert(w) ==
    { IF f.err # ""
      THEN f
      ELSE LET emoji == [id |-> next_id, guild_id |-> f.guild, animated |-> FALSE]
           IN  Result([f.w EXCEPT !.emojis = @ \cup {emoji}],
                      "", next_id, NoGuild, f.evicted, TRUE)
      : f \in _find_guild(w, <<>>) }

create_emoji(w) ==
    { IF f.err # ""
      THEN f
      ELSE LET emoji == [id |-> next_id, guild_id |-> f.guild, animated |-> FALSE]
               row == [emoji_id |-> next_id, guild_id |-> f.guild, last_fetched |-> clock]
           IN  Result([f.w EXCEPT !.emojis = @ \cup {emoji}, !.Emoji = @ \cup {row}],
                      "", next_id, NoGuild, f.evicted, TRUE)
      : f \in _find_guild(w, <<>>) }

\* create_user_emoji without the UserEmoji.insert
create_user_emoji_unbound(w, user) == create_emoji(w)

create_user_emoji(w, user) ==
    { IF c.err # ""
      THEN c
      ELSE Result([c.w EXCEPT !.UserEmoji = @ \cup {[user_id |-> user, emoji_id |-> c.emoji]}],
                  "", c.emoji, c.guild, c.evicted, TRUE)
      : c \in create_emoji(w) }

\* ---- fetch_emoji, fetch_user_emoji ---------------------------------------
\* fetch_emoji that keeps the row of an emoji the platform no longer has
fetch_emoji_keeps_row(w, emoji_id) ==
    IF emoji_id = NoId
    THEN Result(w, "", _not_found_emoji, NoGuild, <<>>, FALSE)
    ELSE LET rows == fetch_row(w.Emoji, emoji_id) IN
         IF rows = {}
         THEN Result(w, "ValueError", NoId, NoGuild, <<>>, TRUE)
         ELSE LET record == CHOOSE r \in rows : TRUE
                  w1 == [w EXCEPT !.Emoji = (@ \ {record}) \cup
                                              {[record EXCEPT !.last_fetched = clock]}]
              IN  IF get_emoji(w1.emojis, emoji_id) = {}
                  THEN Result(w1, "RuntimeError", NoId, NoGuild, <<>>, TRUE)
                  ELSE Result(w1, "", emoji_id, NoGuild, <<>>, TRUE)

\* fetch_emoji that looks the id up before it tests it for None
fetch_emoji_none_looked_up(w, emoji_id) ==
    LET rows == fetch_row(w.Emoji, emoji_id) IN
    IF rows = {}
    THEN Result(w, "ValueError", NoId, NoGuild, <<>>, TRUE)
    ELSE LET record == CHOOSE r \in rows : TRUE
             updated == [record EXCEPT !.last_fetched = clock]
             w1 == [w EXCEPT !.Emoji = (@ \ {record}) \cup {updated}]
         IN  IF get_emoji(w1.emojis, emoji_id) = {}
             THEN Result(delete_record(w1, updated), "RuntimeError", NoId, NoGuild, <<>>, TRUE)
             ELSE Result(w1, "", emoji_id, NoGuild, <<>>, TRUE)

fetch_emoji(w, emoji_id) ==
    IF emoji_id = NoId
    THEN Result(w, "", _not_found_emoji, NoGuild, <<>>, FALSE)
    ELSE LET rows == fetch_row(w.Emoji, emoji_id) IN
         IF rows = {}
         THEN Result(w, "ValueError", NoId, NoGuild, <<>>, TRUE)
         ELSE LET record == CHOOSE r \in rows : TRUE
                  updated == [record EXCEPT !.last_fetched = clock]
                  w1 == [w EXCEPT !.Emoji = (@ \ {record}) \cup {updated}]
              IN  IF get_emoji(w1.emojis, emoji_id) = {}
                  THEN Result(delete_record(w1, updated), "RuntimeError", NoId, NoGuild, <<>>, TRUE)
                  ELSE Result(w1, "", emoji_id, NoGuild, <<>>, TRUE)

\* fetch_user_emoji that lets "Emoji in cache was deleted." through
fetch_user_emoji_uncaught(w, user) ==
    IF user = NoUser
    THEN {fetch_emoji(w, NoId)}
    ELSE LET rows == fetch_user_row(w.UserEmoji, user) IN
         IF rows = {}
         THEN create_user_emoji(w, user)
         ELSE {fetch_emoji(w, (CHOOSE r \in rows : TRUE).emoji_id)}

fetch_user_emoji(w, user) ==
    IF user = NoUser
    THEN {fetch_emoji(w, NoId)}
    ELSE LET rows == fetch_user_row(w.UserEmoji, user) IN
         IF rows = {}
         THEN create_user_emoji(w, user)
         ELSE LET record == CHOOSE r \in rows : TRUE
                  f == fetch_emoji(w, record.emoji_id)
              IN  IF f.err = "" THEN {f}
                  ELSE IF f.err = "RuntimeError"
                  THEN {[c EXCEPT !.caught = TRUE] :
                           c \in create_user_emoji([f.w EXCEPT !.UserEmoji = @ \ {record}], user)}
                  ELSE {f}

\* ---- the state machine ---------------------------------------------------
\* A coroutine that runs no handler. op is the handler it was started with, pc
\* the await it stands at, user and emoji_id the arguments and the keys of the
\* rows it holds, guild and emoji what _find_guild and create_custom_emoji gave
\* it, err the exception it ended with, at the time it wrote as last_fetched,
\* cap the rows Emoji had when _find_guild was called less the evictions the
\* call has made, met the emoji that a fetch_emoji of another coroutine held
\* between its update and its liveness check when this one read the oldest
\* row, n the handlers it has run.
Idle == [op |-> "idle", pc |-> "done", user |-> NoUser, emoji_id |-> NoId,
         guild |-> NoGuild, emoji |-> NoId, err |-> "", at |-> 0, cap |-> 0, met |-> {}, n |-> 0]

\* call.evictee: the user of the call was in evictee when it was made;
\* call.absent: delete_emoji found the row of an emoji that was gone already;
\* ret.caught: fetch_user_emoji caught "Emoji in cache was deleted."
NoCall == [name |-> "external", user |-> NoUser, emoji_id |-> NoId, evictee |-> FALSE,
           absent |-> FALSE]
NoRet == [err |-> "", emoji |-> NoId, guild |-> NoGuild, caught |-> FALSE]

\* No call of _transpose
NoTranspose == [items |-> <<>>, columns |-> 0, per_col |-> <<>>, i |-> 0,
                result |-> <<>>, err |-> "", pc |-> "idle"]

\* channel=None of the channel commands
NoChannel == "None"

\* No channel command
NoCtx == [command |-> "none", arg |-> NoChannel, channel |-> NoChannel, here |-> NoChannel,
          voice |-> NoChannel, in_guild |-> FALSE, pc |-> "idle", err |-> "",
          reply |-> <<>>]

\* An interaction nothing has answered: interaction.response.is_done() is
\* False, and no send_message coroutine was made
NoInteraction == [done |-> FALSE, sends |-> <<>>]

\* timezone=None, and the members who use the slash commands: the one who
\* invokes them (interaction.user) and another
NoZone == "None"
Members == {"invoker", "other"}

\* Nobody has stored a time zone
NoTimeZones == [user \in Members |-> NoZone]

\* No slash command. args: the arguments as they were given, which the
\* command's parameters timezone and user do not stay; looked_up: the users
\* whose time zone was asked of the store
NoSlash == [args |-> [timezone |-> NoZone, user |-> NoUser],
            timezone |-> NoZone, user |-> NoUser, private |-> TRUE, pc |-> "idle",
            looked_up |-> <<>>, embed |-> <<>>]

\* No call of validate_login. code: "code" in request.query; token: what
\* /oauth2/token answered; me: what /users/@me answers
NoLogin == [code |-> FALSE,
            token |-> [status |-> 0, access_token |-> FALSE],
            me |-> [status |-> 0, id |-> FALSE],
            pc |-> "idle", returned |-> "None", err |-> ""]

\* The other parts of the bot at rest
Rest ==
    /\ transpose = NoTranspose
    /\ ctx = NoCtx
    /\ interaction = NoInteraction
    /\ TimeZones = NoTimeZones
    /\ slash = NoSlash
    /\ login = NoLogin

Init ==
    /\ emojis = Animated
    /\ Emoji = {}
    /\ UserEmoji = {}
    /\ pool \in (SUBSET Guilds) \ {{}}
    /\ leave_free \in 0..MaxLeaveFree
    /\ clock = 0
    /\ next_id = 1
    /\ call = NoCall
    /\ ret = NoRet
    /\ evicted = <<>>
    /\ touched = FALSE
    /\ evictee = {}
    /\ emoji_limits = Tiers
    /\ tasks = [t \in Tasks |-> Idle]
    /\ Rest

\* The current state as a handler sees it
Now == World(emojis, Emoji, UserEmoji)

\* A handler call with result r
Apply(name, user, emoji_id, r) ==
    /\ emojis' = r.w.emojis
    /\ Emoji' = r.w.Emoji
    /\ UserEmoji' = r.w.UserEmoji
    /\ next_id' = IF \E e \in r.w.emojis : e.id = next_id THEN next_id + 1 ELSE next_id
    /\ call' = [name |-> name, user |-> user, emoji_id |-> emoji_id,
                evictee |-> user \in evictee,
                absent |-> /\ name = "delete_emoji"
                           /\ fetch_row(Emoji, emoji_id) # {}
                           /\ get_emoji(emojis, emoji_id) = {}]
    /\ ret' = [err |-> r.err, emoji |-> r.emoji, guild |-> r.guild, caught |-> r.caught]
    /\ evicted' = r.evicted
    /\ touched' = r.touched
    /\ evictee' = (evictee \ {user}) \cup UNION {r.evicted[i].owners : i \in 1..Len(r.evicted)}
    /\ UNCHANGED <<pool, leave_free, clock, emoji_limits, tasks, others>>

\* The platform hands out ids up to MaxId
Return(name, user, emoji_id, r) ==
    /\ (\E e \in r.w.emojis : e.id = next_id) => next_id <= MaxId
    /\ Apply(name, user, emoji_id, r)

FindGuild ==
    \E r \in _find_guild(Now, <<>>) : Return("_find_guild", NoUser, NoId, r)

CreateEmoji ==
    \E r \in create_emoji(Now) : Return("create_emoji", NoUser, NoId, r)

\* The ids a caller passes: None aside, those the platform has handed out and
\* the next one, which stands for every id it has not
KnownIds == {emoji_id \in EmojiIds : emoji_id <= next_id}

FetchEmoji ==
    \E emoji_id \in KnownIds \cup {NoId} :
        Return("fetch_emoji", NoUser, emoji_id, fetch_emoji(Now, emoji_id))

FetchUserEmoji ==
    \E user \in Users \cup {NoUser} :
        \E r \in fetch_user_emoji(Now, user) : Return("fetch_user_emoji", user, NoId, r)

DeleteEmoji ==
    \E emoji_id \in KnownIds :
        Return("delete_emoji", NoUser, emoji_id, delete_emoji(Now, emoji_id))

\* ---- the environment -----------------------------------------------------
External ==
    /\ call' = NoCall
    /\ ret' = NoRet
    /\ evicted' = <<>>
    /\ touched' = FALSE
    /\ UNCHANGED <<evictee, emoji_limits, tasks, others>>

\* The static emoji of a guild that the bot did not create carry no id the bot
\* ever learns: the k-th of them in a guild is given the id -k
Foreign(ems, guild) ==
    {e \in ems : e.id < 0 /\ e.guild_id = guild /\ ~e.animated}

\* Somebody deletes a static emoji on the platform: one the bot created, or the
\* last of a guild's other emoji
ExternalDelete ==
    /\ \E e \in emojis :
          /\ ~e.animated
          /\ e.id < 0 => e.id = 0 - Cardinality(Foreign(emojis, e.guild_id))
          /\ emojis' = emojis \ {e}
    /\ External
    /\ UNCHANGED <<Emoji, UserEmoji, pool, leave_free, clock, next_id>>

\* Somebody uploads a static emoji to a guild; the platform enforces the
\* guild's limit
ExternalCreate ==
    /\ \E guild \in Guilds :
          /\ Cardinality({e \in emojis : e.guild_id = guild /\ ~e.animated})
                < emoji_limit(guild)
          /\ emojis' = emojis \cup
                {[id |-> 0 - (Cardinality(Foreign(emojis, guild)) + 1),
                  guild_id |-> guild, animated |-> FALSE]}
    /\ External
    /\ UNCHANGED <<Emoji, UserEmoji, pool, leave_free, clock, next_id>>

\* Time passes. The handlers only compare the times of rows, so a time that no
\* row carries is skipped.
Tick ==
    /\ clock < MaxClock
    /\ \E row \in Emoji : row.last_fetched = clock
    /\ clock' = clock + 1
    /\ External
    /\ UNCHANGED <<emojis, Emoji, UserEmoji, pool, leave_free, next_id>>

\* The bot restarts with guild B taken out of CONFIG.EMOJI.GUILDS: the rows and
\* the emoji of B stay
Reconfigure ==
    /\ pool = Guilds
    /\ pool' = pool \ {"B"}
    /\ External
    /\ UNCHANGED <<emojis, Emoji, UserEmoji, leave_free, clock, next_id>>

Next ==
    \/ FindGuild
    \/ CreateEmoji
    \/ FetchEmoji
    \/ FetchUserEmoji
    \/ DeleteEmoji
    \/ ExternalDelete
    \/ ExternalCreate
    \/ Tick
    \/ Reconfigure

Spec == Init /\ [][Next]_vars

\* ---- the handlers as coroutines ------------------------------------------
\* The static emoji the platform holds for the guild
used_now(guild) == Cardinality({e \in emojis : e.guild_id = guild /\ ~e.animated})

\* UserEmoji holds one row for a user: a plain insert for a user who has a row
\* is refused
insert_conflicts(UE, user) == fetch_user_row(UE, user) # {}

\* Handlers called from several commands run as coroutines on one event loop.
\* A coroutine gives way at an await that goes to the store or to the platform
\* and nowhere else, and every such call takes effect at one moment; so a step
\* of a coroutine is one store call, one platform call, or one read of the
\* bot's view of the platform (guild.emojis, get_emoji), together with the code
\* that runs up to the next one. Every coroutine has acquired a connection of
\* its own (MaybeAcquire); no handler opens a transaction.
Goto(t, pc) == tasks' = [tasks EXCEPT ![t].pc = pc]

\* What the steps of the coroutines leave alone
Frame == UNCHANGED <<pool, leave_free, clock, call, ret, evicted, touched, evictee,
                     emoji_limits, others>>

\* The handler raises err: its locals are gone, but for the emoji it had created
Done(t, err) ==
    tasks' = [tasks EXCEPT ![t] = [Idle EXCEPT !.op = tasks[t].op, !.err = err,
                                               !.emoji = tasks[t].emoji, !.n = tasks[t].n]]

\* The handler returns the emoji, or the guild
Returns(t, emoji, guild) ==
    tasks' = [tasks EXCEPT ![t] = [Idle EXCEPT !.op = tasks[t].op, !.emoji = emoji,
                                               !.guild = guild, !.n = tasks[t].n]]

\* _find_guild is entered from create_emoji (and so from create_user_emoji)
\* unless the coroutine was started with it
Creates(t) == tasks[t].op \in {"create_emoji", "fetch_user_emoji"}

\* A coroutine is started with a handler and its arguments
Start(t) ==
    /\ tasks[t].pc = "done"
    /\ Frame
    /\ tasks[t].n < MaxCalls
    /\ \E op \in {"_find_guild", "create_emoji", "delete_emoji", "fetch_emoji",
                   "fetch_user_emoji"} :
       \E user \in IF op = "fetch_user_emoji" THEN Users ELSE {NoUser} :
       \E emoji_id \in IF op \in {"delete_emoji", "fetch_emoji"} THEN KnownIds ELSE {NoId} :
          tasks' = [tasks EXCEPT ![t] =
                      [Idle EXCEPT !.op = op, !.user = user, !.emoji_id = emoji_id,
                                   !.n = tasks[t].n + 1,
                                   !.cap = IF op = "_find_guild" THEN Cardinality(Emoji) ELSE 0,
                                   !.pc = CASE op \in {"_find_guild", "create_emoji"} -> "scan"
                                            [] op = "delete_emoji" -> "de_fetch_row"
                                            [] op = "fetch_emoji" -> "fe_fetch_row"
                                            [] op = "fetch_user_emoji" -> "fue_fetch_row"]]
    /\ UNCHANGED <<emojis, Emoji, UserEmoji, next_id>>

\* _find_guild, lines 62-70: the guilds are scanned as the bot sees them now
find_guild_scan(t) ==
    /\ tasks[t].pc = "scan"
    /\ Frame
    /\ LET fs == free_spaces(emojis) IN
       IF fs # {}
       THEN \E guild \in random_sample(fs, emojis) :
               IF Creates(t)
               THEN tasks' = [tasks EXCEPT ![t].guild = guild, ![t].pc = "create"]
               ELSE Returns(t, NoId, guild)
       ELSE Goto(t, "oldest")
    /\ UNCHANGED <<emojis, Emoji, UserEmoji, next_id>>

\* _find_guild, lines 73-76: Emoji.fetch_row(order_by last_fetched ASC)
find_guild_oldest(t) ==
    /\ tasks[t].pc = "oldest"
    /\ Frame
    /\ IF Emoji = {}
       THEN Done(t, "RuntimeError")
       ELSE \E record \in fetch_oldest(Emoji) :
               tasks' = [tasks EXCEPT ![t].emoji_id = record.emoji_id,
                                      ![t].met = {tasks[s].emoji_id :
                                                    s \in {u \in Tasks \ {t} : tasks[u].pc = "fe_get"}},
                                      ![t].pc = "de_fetch_row"]
    /\ UNCHANGED <<emojis, Emoji, UserEmoji, next_id>>

\* delete_emoji, lines 146-148: Emoji.fetch_row(emoji_id=emoji_id)
delete_emoji_fetch_row(t) ==
    /\ tasks[t].pc = "de_fetch_row"
    /\ Frame
    /\ IF fetch_row(Emoji, tasks[t].emoji_id) = {}
       THEN Done(t, "ValueError")
       ELSE Goto(t, "de_get")
    /\ UNCHANGED <<emojis, Emoji, UserEmoji, next_id>>

\* delete_emoji, lines 150-151: self.get_emoji(emoji_id)
delete_emoji_get(t) ==
    /\ tasks[t].pc = "de_get"
    /\ Frame
    /\ IF get_emoji(emojis, tasks[t].emoji_id) # {}
       THEN Goto(t, "de_delete")
       ELSE Goto(t, "de_record")
    /\ UNCHANGED <<emojis, Emoji, UserEmoji, next_id>>

\* delete_emoji, line 152: emoji.delete(); the platform answers 404 for an
\* emoji it no longer has, which discord.py raises as NotFound
delete_emoji_delete(t) ==
    /\ tasks[t].pc = "de_delete"
    /\ Frame
    /\ IF get_emoji(emojis, tasks[t].emoji_id) # {}
       THEN /\ emojis' = emojis \ get_emoji(emojis, tasks[t].emoji_id)
            /\ Goto(t, "de_record")
       ELSE /\ Done(t, "NotFound")
            /\ UNCHANGED emojis
    /\ UNCHANGED <<Emoji, UserEmoji, next_id>>

\* delete_emoji, line 154: Emoji.delete_record(connection, record); _find_guild
\* then calls itself (line 78)
delete_emoji_delete_record(t) ==
    /\ tasks[t].pc = "de_record"
    /\ Frame
    /\ Emoji' = Emoji \ fetch_row(Emoji, tasks[t].emoji_id)
    /\ UserEmoji' = on_delete_emoji(UserEmoji, tasks[t].emoji_id)
    /\ CASE tasks[t].op = "delete_emoji" -> Returns(t, NoId, NoGuild)
         [] tasks[t].op = "_find_guild" ->
              tasks' = [tasks EXCEPT ![t].cap = @ - 1, ![t].pc = "scan"]
         [] OTHER -> Goto(t, "scan")
    /\ UNCHANGED <<emojis, next_id>>

\* create_emoji, line 87: guild.create_custom_emoji(); the platform refuses a
\* static emoji beyond the guild's limit (HTTPException)
create_emoji_create(t) ==
    /\ tasks[t].pc = "create"
    /\ Frame
    /\ IF used_now(tasks[t].guild) >= emoji_limit(tasks[t].guild)
       THEN /\ Done(t, "HTTPException")
            /\ UNCHANGED <<emojis, next_id>>
       ELSE /\ next_id <= MaxId
            /\ emojis' = emojis \cup
                  {[id |-> next_id, guild_id |-> tasks[t].guild, animated |-> FALSE]}
            /\ next_id' = next_id + 1
            /\ tasks' = [tasks EXCEPT ![t].emoji = next_id, ![t].pc = "insert"]
    /\ UNCHANGED <<Emoji, UserEmoji>>

\* create_emoji, line 89: Emoji.insert(emoji_id=emoji.id, guild_id=guild.id)
create_emoji_insert(t) ==
    /\ tasks[t].pc = "insert"
    /\ Frame
    /\ Emoji' = Emoji \cup {[emoji_id |-> tasks[t].emoji, guild_id |-> tasks[t].guild,
                              last_fetched |-> clock]}
    /\ IF tasks[t].op = "create_emoji"
       THEN Returns(t, tasks[t].emoji, NoGuild)
       ELSE Goto(t, "bind")
    /\ UNCHANGED <<emojis, UserEmoji, next_id>>

\* create_user_emoji, line 101: UserEmoji.insert(emoji_id=emoji.id,
\* user_id=user.id), a plain insert; the table is keyed on the user
create_user_emoji_insert(t) ==
    /\ tasks[t].pc = "bind"
    /\ Frame
    /\ IF insert_conflicts(UserEmoji, tasks[t].user)
       THEN /\ Done(t, "UniqueViolationError")
            /\ UNCHANGED UserEmoji
       ELSE /\ UserEmoji' = UserEmoji \cup
                  {[user_id |-> tasks[t].user, emoji_id |-> tasks[t].emoji]}
            /\ Returns(t, tasks[t].emoji, NoGuild)
    /\ UNCHANGED <<emojis, Emoji, next_id>>

\* fetch_emoji, lines 112-114: Emoji.fetch_row(emoji_id=emoji_id)
fetch_emoji_fetch_row(t) ==
    /\ tasks[t].pc = "fe_fetch_row"
    /\ Frame
    /\ IF fetch_row(Emoji, tasks[t].emoji_id) = {}
       THEN Done(t, "ValueError")
       ELSE Goto(t, "fe_update")
    /\ UNCHANGED <<emojis, Emoji, UserEmoji, next_id>>

\* fetch_emoji that leaves the update of last_fetched for after the liveness
\* check
fetch_emoji_update_record_late(t) ==
    /\ tasks[t].pc = "fe_update"
    /\ Frame
    /\ tasks' = [tasks EXCEPT ![t].at = clock, ![t].pc = "fe_get"]
    /\ UNCHANGED <<emojis, Emoji, UserEmoji, next_id>>

\* fetch_emoji, line 116: Emoji.update_record(record, last_fetched=now)
fetch_emoji_update_record(t) ==
    /\ tasks[t].pc = "fe_update"
    /\ Frame
    /\ Emoji' = {IF row.emoji_id = tasks[t].emoji_id
                 THEN [row EXCEPT !.last_fetched = clock] ELSE row : row \in Emoji}
    /\ tasks' = [tasks EXCEPT ![t].at = clock, ![t].pc = "fe_get"]
    /\ UNCHANGED <<emojis, UserEmoji, next_id>>

\* fetch_emoji, lines 118-119 and 123: self.get_emoji(emoji_id)
fetch_emoji_get(t) ==
    /\ tasks[t].pc = "fe_get"
    /\ Frame
    /\ IF get_emoji(emojis, tasks[t].emoji_id) # {}
       THEN Returns(t, tasks[t].emoji_id, NoGuild)
       ELSE Goto(t, "fe_record")
    /\ UNCHANGED <<emojis, Emoji, UserEmoji, next_id>>

\* fetch_emoji, lines 120-121: Emoji.delete_record(record), then RuntimeError,
\* which fetch_user_emoji catches (line 137)
fetch_emoji_delete_record(t) ==
    /\ tasks[t].pc = "fe_record"
    /\ Frame
    /\ Emoji' = Emoji \ fetch_row(Emoji, tasks[t].emoji_id)
    /\ UserEmoji' = on_delete_emoji(UserEmoji, tasks[t].emoji_id)
    /\ IF tasks[t].op = "fetch_user_emoji"
       THEN Goto(t, "fue_record")
       ELSE Done(t, "RuntimeError")
    /\ UNCHANGED <<emojis, next_id>>

\* fetch_user_emoji, lines 132-136 and 140: UserEmoji.fetch_row(user_id=user.id)
fetch_user_emoji_fetch_row(t) ==
    /\ tasks[t].pc = "fue_fetch_row"
    /\ Frame
    /\ LET rows == fetch_user_row(UserEmoji, tasks[t].user) IN
       IF rows = {}
       THEN Goto(t, "scan")
       ELSE \E record \in rows :
               tasks' = [tasks EXCEPT ![t].emoji_id = record.emoji_id,
                                      ![t].pc = "fe_fetch_row"]
    /\ UNCHANGED <<emojis, Emoji, UserEmoji, next_id>>

\* fetch_user_emoji, lines 138 and 140: UserEmoji.delete_record(record), then
\* create_user_emoji
fetch_user_emoji_delete_record(t) ==
    /\ tasks[t].pc = "fue_record"
    /\ Frame
    /\ UserEmoji' = UserEmoji \ fetch_user_row(UserEmoji, tasks[t].user)
    /\ Goto(t, "scan")
    /\ UNCHANGED <<emojis, Emoji, next_id>>

\* The awaits that go to the store
StorePcs == {"oldest", "de_fetch_row", "de_record", "insert", "bind", "fe_fetch_row",
             "fe_update", "fe_record", "fue_fetch_row", "fue_record"}

\* The store call the coroutine awaits fails (the connection is lost, the
\* server refuses): asyncpg raises, and no handler catches it
store_fails(t) ==
    /\ tasks[t].pc \in StorePcs
    /\ Frame
    /\ Done(t, "PostgresError")
    /\ UNCHANGED <<emojis, Emoji, UserEmoji, next_id>>

\* A step of a coroutine
CoroutineNext ==
    \/ \E t \in Tasks : Start(t)
    \/ \E t \in Tasks : find_guild_scan(t)
    \/ \E t \in Tasks : find_guild_oldest(t)
    \/ \E t \in Tasks : delete_emoji_fetch_row(t)
    \/ \E t \in Tasks : delete_emoji_get(t)
    \/ \E t \in Tasks : delete_emoji_delete(t)
    \/ \E t \in Tasks : delete_emoji_delete_record(t)
    \/ \E t \in Tasks : create_emoji_create(t)
    \/ \E t \in Tasks : create_emoji_insert(t)
    \/ \E t \in Tasks : create_user_emoji_insert(t)
    \/ \E t \in Tasks : fetch_emoji_fetch_row(t)
    \/ \E t \in Tasks : fetch_emoji_update_record(t)
    \/ \E t \in Tasks : fetch_emoji_get(t)
    \/ \E t \in Tasks : fetch_emoji_delete_record(t)
    \/ \E t \in Tasks : fetch_user_emoji_fetch_row(t)
    \/ \E t \in Tasks : fetch_user_emoji_delete_record(t)

\* The handlers as coroutines, nothing else happening
Coroutines == Init /\ [][CoroutineNext]_vars

ConcurrentNext ==
    \/ CoroutineNext
    \/ ExternalDelete
    \/ Tick

\* The handlers as coroutines, emoji deleted on the platform by others, and
\* time
Concurrent == Init /\ [][ConcurrentNext]_vars

FaultyNext ==
    \/ CoroutineNext
    \/ \E t \in Tasks : store_fails(t)

\* The handlers as coroutines over a store whose calls can fail
Faulty == Init /\ [][FaultyNext]_vars

\* ---- the vocabulary of the claims ----------------------------------------
\* used(g): the non-animated emoji of the guild; free(g) = capacity - used
used(guild, ems) == Cardinality({e \in ems : e.guild_id = guild /\ ~e.animated})

free(guild, ems) == emoji_limit(guild) - used(guild, ems)

\* Every configured guild is at or below the headroom
Blocked(ems) == \A guild \in pool : free(guild, ems) <= leave_free

\* The guild's non-animated emoji that no row of E names
Untracked(guild, ems, E) ==
    {e \in ems : e.guild_id = guild /\ ~e.animated /\ fetch_row(E, e.id) = {}}

\* Evicting every row of E would leave every configured guild at or below the
\* headroom
Unrecoverable(ems, E) ==
    \A guild \in pool :
        emoji_limit(guild) - Cardinality(Untracked(guild, ems, E)) <= leave_free

\* Deleting the row frees a slot that brings its guild above the headroom
Reclaims(row, ems) ==
    \E e \in ems : /\ e.id = row.emoji_id
                   /\ ~e.animated
                   /\ e.guild_id \in pool
                   /\ free(e.guild_id, ems) = leave_free

\* The rows _find_guild starts from in the step: fetch_user_emoji has purged the
\* row of a binding whose emoji is gone before it comes to create
StartRows ==
    IF call'.name = "fetch_user_emoji"
    THEN {r \in Emoji : \A b \in fetch_user_row(UserEmoji, call'.user) : b.emoji_id # r.emoji_id}
    ELSE Emoji

EvictedRows(n) == {evicted'[j].row : j \in 1..n}

\* ---- C1 ------------------------------------------------------------------
\* C1: whenever _find_guild evicts, the evicted row has the least last_fetched
\* of all rows of Emoji that exist at that moment (the rows at the start of the
\* call less those the call has evicted before).
C1_EvictsOldest ==
    [][\A i \in 1..Len(evicted') :
          LET before == StartRows \ EvictedRows(i - 1) IN
          /\ evicted'[i].row \in before
          /\ \A r \in before : evicted'[i].row.last_fetched <= r.last_fetched]_vars

\* A _find_guild call has evicted a row and a row fetched later is still there
C1_Witness ==
    /\ call.name = "_find_guild"
    /\ Len(evicted) >= 1
    /\ \E r \in Emoji : r.last_fetched > evicted[1].row.last_fetched

\* ---- C2 ------------------------------------------------------------------
\* C2, as stated: a _find_guild call made with every configured guild at
\* free <= leave_free evicts exactly one row before it returns.
C2_ExactlyOneEviction ==
    [][(call'.name = "_find_guild" /\ Blocked(emojis) /\ ret'.err = "")
          => Len(evicted') = 1]_vars

\* C2, amended: such a call evicts at least one row when a row exists or when
\* it returns; it evicts exactly one (and returns) when the first evicted row's
\* emoji is live in a configured guild whose free equals leave_free; when that
\* eviction frees nothing it goes on to evict the next oldest row.
C2_EvictsUntilFree ==
    [][(call'.name = "_find_guild" /\ Blocked(emojis))
          => /\ (ret'.err = "" \/ Emoji # {}) => Len(evicted') >= 1
             /\ (Len(evicted') >= 1 /\ Reclaims(evicted'[1].row, emojis))
                   => (Len(evicted') = 1 /\ ret'.err = "")
             /\ (Len(evicted') >= 1 /\ ~Reclaims(evicted'[1].row, emojis)
                   /\ Cardinality(Emoji) >= 2)
                   => Len(evicted') >= 2]_vars

\* A _find_guild call has evicted two rows and returned a guild
C2_Witness ==
    /\ call.name = "_find_guild"
    /\ ret.err = ""
    /\ Len(evicted) >= 2

\* ---- C3 ------------------------------------------------------------------
\* C3: the guild _find_guild returns is a configured guild with
\* free = capacity - used > 0 when it is returned.
C3_ReturnedGuildHasRoom ==
    (call.name = "_find_guild" /\ ret.err = "")
        => (ret.guild \in pool /\ free(ret.guild, emojis) > 0)

\* _find_guild has returned a guild with one free slot after evicting
C3_Witness ==
    /\ call.name = "_find_guild"
    /\ ret.err = ""
    /\ Len(evicted) >= 1
    /\ free(ret.guild, emojis) = 1

\* ---- C4 ------------------------------------------------------------------
\* C4, as stated: _find_guild fails only in a state where used = capacity for
\* every configured guild and no row exists.
C4_FailsOnlyWhenFull ==
    (call.name = "_find_guild" /\ ret.err # "")
        => /\ \A guild \in pool : used(guild, emojis) = emoji_limit(guild)
           /\ Emoji = {}

\* C4, amended: _find_guild fails exactly when called in a state where every
\* configured guild would still have free <= leave_free with every recorded
\* emoji removed; when the error is raised no row is left and every configured
\* guild has free <= leave_free; in every other state it returns a configured
\* guild.
C4_FailsWhenUnrecoverable ==
    [][call'.name = "_find_guild"
          => /\ ret'.err \in {"", "RuntimeError"}
             /\ ret'.err = "RuntimeError" <=> Unrecoverable(emojis, Emoji)
             /\ ret'.err = "RuntimeError" => (Emoji' = {} /\ Blocked(emojis'))
             /\ ret'.err = "" => ret'.guild \in pool]_vars

\* _find_guild has failed after evicting the last row, with a free slot left
C4_Witness ==
    /\ call.name = "_find_guild"
    /\ ret.err = "RuntimeError"
    /\ Len(evicted) >= 1
    /\ \E guild \in pool : free(guild, emojis) > 0

Recreated(user) ==
    /\ ret'.err = ""
    /\ ret'.emoji = next_id
    /\ get_emoji(emojis', ret'.emoji) # {}
    /\ fetch_row(Emoji', ret'.emoji) # {}
    /\ fetch_user_row(UserEmoji', user) = {[user_id |-> user, emoji_id |-> ret'.emoji]}

\* C6, as stated: when a user's bound emoji has been evicted by _find_guild, the
\* user's next fetch_user_emoji succeeds by creating a fresh emoji and binding.
C6_NextFetchRecreates ==
    [][(call'.name = "fetch_user_emoji" /\ call'.user \in evictee)
          => Recreated(call'.user)]_vars

\* C6, amended: that fetch_user_emoji never fails with "not in cache"; it takes
\* the creation path, so it returns a fresh emoji bound to the user unless
\* _find_guild raises "Emoji cache simultaneously empty and full.", which it does
\* exactly when no eviction can bring a configured guild above leave_free.
C6_NextFetchCreatesOrFull ==
    [][(call'.name = "fetch_user_emoji" /\ call'.user \in evictee)
          => /\ ret'.err \in {"", "RuntimeError"}
             /\ ret'.err = "RuntimeError" <=> Unrecoverable(emojis, Emoji)
             /\ ret'.err = "" => Recreated(call'.user)
             /\ ret'.err = "RuntimeError" => fetch_user_row(UserEmoji', call'.user) = {}]_vars

\* A user whose emoji had been evicted has fetched and got a fresh emoji
C6_Witness ==
    /\ call.name = "fetch_user_emoji"
    /\ call.evictee
    /\ ret.err = ""
    /\ fetch_user_row(UserEmoji, call.user) = {[user_id |-> call.user, emoji_id |-> ret.emoji]}

\* ---- C7 ------------------------------------------------------------------
\* C7: fetch_emoji(id) on a row whose emoji the platform no longer has deletes
\* the row and fails with "Emoji in cache was deleted."; from then on no row for
\* id exists again (an id once handed out never gets a row back), and every
\* fetch_emoji(id) without a row fails with "not in cache", the next one
\* included.
C7_DesyncedThenNotCached ==
    [][/\ (/\ call'.name = "fetch_emoji"
           /\ fetch_row(Emoji, call'.emoji_id) # {}
           /\ get_emoji(emojis, call'.emoji_id) = {})
          => (ret'.err = "RuntimeError" /\ fetch_row(Emoji', call'.emoji_id) = {})
       /\ \A emoji_id \in EmojiIds :
             (emoji_id < next_id /\ fetch_row(Emoji, emoji_id) = {})
                => fetch_row(Emoji', emoji_id) = {}
       /\ (/\ call'.name = "fetch_emoji"
           /\ call'.emoji_id # NoId
           /\ fetch_row(Emoji, call'.emoji_id) = {})
          => ret'.err = "ValueError"
       /\ (/\ call.name = "fetch_emoji"
           /\ ret.err = "RuntimeError"
           /\ call'.name = "fetch_emoji"
           /\ call'.emoji_id = call.emoji_id)
          => ret'.err = "ValueError"]_vars

\* fetch_emoji has found the emoji gone and purged its row
C7_Witness ==
    /\ call.name = "fetch_emoji"
    /\ ret.err = "RuntimeError"
    /\ fetch_row(Emoji, call.emoji_id) = {}

\* ---- C8 ------------------------------------------------------------------
\* The user's binding names an emoji the platform no longer has, its row still
\* in Emoji
StaleBinding(b) ==
    /\ b \in UserEmoji
    /\ fetch_row(Emoji, b.emoji_id) # {}
    /\ get_emoji(emojis, b.emoji_id) = {}

\* C8, as stated: fetch_user_emoji for a user with such a binding deletes the
\* binding, creates a fresh emoji and returns it, and the user's only binding
\* then names the returned emoji.
C8_StaleBindingRecreated ==
    [][\A b \in UserEmoji :
          (call'.name = "fetch_user_emoji" /\ call'.user = b.user_id /\ StaleBinding(b))
             => (b \notin UserEmoji' /\ Recreated(b.user_id))]_vars

\* C8, amended: the call deletes the stale binding and the stale row; it then
\* returns a fresh emoji that the user's only binding names, unless _find_guild
\* raises "Emoji cache simultaneously empty and full." (no eviction can bring a
\* configured guild above leave_free), and then the call fails with that error
\* and leaves the user without a binding.
C8_StaleBindingReplacedOrFull ==
    [][\A b \in UserEmoji :
          (call'.name = "fetch_user_emoji" /\ call'.user = b.user_id /\ StaleBinding(b))
             => /\ b \notin UserEmoji'
                /\ fetch_row(Emoji', b.emoji_id) = {}
                /\ ret'.err \in {"", "RuntimeError"}
                /\ ret'.err = "RuntimeError"
                      <=> Unrecoverable(emojis, Emoji \ fetch_row(Emoji, b.emoji_id))
                /\ ret'.err = "" => Recreated(b.user_id)
                /\ ret'.err = "RuntimeError" => fetch_user_row(UserEmoji', b.user_id) = {}]_vars

\* fetch_user_emoji has caught the desync and bound the user to a fresh emoji
C8_Witness ==
    /\ call.name = "fetch_user_emoji"
    /\ ret.caught
    /\ ret.err = ""
    /\ fetch_user_row(UserEmoji, call.user) = {[user_id |-> call.user, emoji_id |-> ret.emoji]}

\* ---- C9 ------------------------------------------------------------------
\* C9: fetch_emoji(None), and fetch_user_emoji(None) which delegates to it,
\* return the not-found emoji, change neither table nor the platform, and
\* neither acquire the store nor ask the platform.
C9_NoneTouchesNothing ==
    [][(\/ (call'.name = "fetch_emoji" /\ call'.emoji_id = NoId)
        \/ (call'.name = "fetch_user_emoji" /\ call'.user = NoUser))
          => /\ ret'.err = ""
             /\ ret'.emoji = _not_found_emoji
             /\ ~touched'
             /\ UNCHANGED <<emojis, Emoji, UserEmoji>>]_vars

\* fetch_user_emoji(None) has returned the not-found emoji with rows in the store
C9_Witness ==
    /\ call.name = "fetch_user_emoji"
    /\ call.user = NoUser
    /\ ret.emoji = _not_found_emoji
    /\ Emoji # {}
    /\ UserEmoji # {}

\* ---- C10 -----------------------------------------------------------------
\* C10: delete_emoji(id) without a row for id fails with "not in cache" and
\* changes neither table nor the platform; so a delete_emoji(id) right after a
\* delete_emoji(id) fails with "not in cache".
C10_DeleteWithoutRowFails ==
    [][/\ (call'.name = "delete_emoji" /\ fetch_row(Emoji, call'.emoji_id) = {})
          => (ret'.err = "ValueError" /\ UNCHANGED <<emojis, Emoji, UserEmoji>>)
       /\ (/\ call.name = "delete_emoji"
           /\ call'.name = "delete_emoji"
           /\ call'.emoji_id = call.emoji_id)
          => ret'.err = "ValueError"]_vars

\* delete_emoji has failed on an id that the platform had handed out, with the
\* emoji of that id gone
C10_Witness ==
    /\ call.name = "delete_emoji"
    /\ ret.err = "ValueError"
    /\ call.emoji_id < next_id
    /\ get_emoji(emojis, call.emoji_id) = {}

\* ---- C16 -----------------------------------------------------------------
\* The configured guilds with free > leave_free
Available(ems) == {guild \in pool : free(guild, ems) > leave_free}

\* C16: a successful create_emoji made while some configured guild has
\* free > leave_free adds exactly one emoji, in one of those guilds, and one row
\* of Emoji with that emoji's id and that guild; every other emoji, every other
\* row and every binding stays as it was.
C16_CreateAddsOneEmojiOneRow ==
    [][(call'.name = "create_emoji" /\ ret'.err = "" /\ Available(emojis) # {})
          => \E guild \in Available(emojis) :
                /\ emojis \subseteq emojis'
                /\ emojis' \ emojis = {[id |-> ret'.emoji, guild_id |-> guild, animated |-> FALSE]}
                /\ get_emoji(emojis, ret'.emoji) = {}
                /\ Emoji \subseteq Emoji'
                /\ \E row \in Emoji' :
                      /\ Emoji' \ Emoji = {row}
                      /\ row.emoji_id = ret'.emoji
                      /\ row.guild_id = guild
                /\ UserEmoji' = UserEmoji
                /\ evicted' = <<>>]_vars

\* create_emoji has put an emoji into guild B while rows and a binding existed
C16_Witness ==
    /\ call.name = "create_emoji"
    /\ ret.err = ""
    /\ evicted = <<>>
    /\ \E row \in Emoji : row.emoji_id = ret.emoji /\ row.guild_id = "B"
    /\ UserEmoji # {}
    /\ Cardinality(Emoji) >= 2

\* ---- C17 -----------------------------------------------------------------
\* C17: when fetch_user_emoji(user) returns an emoji for a user (not None) who
\* had no binding, UserEmoji holds (user, that emoji) and Emoji has a row for
\* that emoji.
C17_FirstFetchBinds ==
    [][(/\ call'.name = "fetch_user_emoji"
        /\ call'.user # NoUser
        /\ fetch_user_row(UserEmoji, call'.user) = {}
        /\ ret'.err = "")
          => /\ [user_id |-> call'.user, emoji_id |-> ret'.emoji] \in UserEmoji'
             /\ fetch_row(Emoji', ret'.emoji) # {}]_vars

\* A user without a binding has fetched, _find_guild has evicted for it, and the
\* user is bound to the emoji returned
C17_Witness ==
    /\ call.name = "fetch_user_emoji"
    /\ call.user # NoUser
    /\ ret.err = ""
    /\ ~ret.caught
    /\ Len(evicted) >= 1
    /\ [user_id |-> call.user, emoji_id |-> ret.emoji] \in UserEmoji

\* ---- C20 -----------------------------------------------------------------
\* C20: in a state where some configured guild has free > leave_free, the
\* guilds _find_guild can return are exactly those guilds, and a _find_guild
\* call returns one of them, evicts nothing and writes nothing to the store.
\* (_find_guild can be called in every state, so the guilds it can return are
\* compared in every state.)
C20_ReturnsAnAvailableGuild ==
    [][(call'.name = "_find_guild" /\ Available(emojis) # {})
          => /\ {r.guild : r \in _find_guild(Now, <<>>)} = Available(emojis)
             /\ ret'.err = ""
             /\ ret'.guild \in Available(emojis)
             /\ evicted' = <<>>
             /\ UNCHANGED <<emojis, Emoji, UserEmoji>>]_vars

\* _find_guild has returned the guild with less room of two that had room, with
\* rows in the store
C20_Witness ==
    /\ call.name = "_find_guild"
    /\ ret.err = ""
    /\ evicted = <<>>
    /\ Available(emojis) = {"A", "B"}
    /\ ret.guild = "B"
    /\ Emoji # {}

\* ---- C15: owners request emoji from a nearly full pool ----------------------
\* The owners of the scenario: u1 may hold one of the emoji that exist at the
\* start, the others hold none
Owners == Users \cup {"u2", "u3"}

\* Two guilds with room for two emoji each, LEAVE_FREE = 0; the bot has created
\* three emoji, two of them in A and one in B, and fetched them since: one row
\* of A carries the least last_fetched of all.
ScenarioInit ==
    /\ pool = Guilds
    /\ leave_free = 0
    /\ emoji_limits = [guild \in Guilds |-> 2]
    /\ clock = 2
    /\ next_id = 4
    /\ \E in_b \in 1..3 : \E oldest \in (1..3) \ {in_b} :
       \E fetched \in [(1..3) \ {oldest} -> 1..2] :
          LET guild_of(i) == IF i = in_b THEN "B" ELSE "A"
              last(i) == IF i = oldest THEN 0 ELSE fetched[i]
          IN  /\ emojis = Animated \cup
                    {[id |-> i, guild_id |-> guild_of(i), animated |-> FALSE] : i \in 1..3}
              /\ Emoji = {[emoji_id |-> i, guild_id |-> guild_of(i), last_fetched |-> last(i)]
                            : i \in 1..3}
    /\ UserEmoji \in {{}} \cup {{[user_id |-> user, emoji_id |-> i]} : user \in Users, i \in 1..3}
    /\ call = NoCall
    /\ ret = NoRet
    /\ evicted = <<>>
    /\ touched = FALSE
    /\ evictee = {}
    /\ tasks = [t \in Tasks |-> Idle]
    /\ Rest

\* An owner without an emoji asks for one
Request ==
    /\ next_id < 4 + MaxRequests
    /\ \E user \in Owners :
          /\ fetch_user_row(UserEmoji, user) = {}
          /\ \E r \in fetch_user_emoji(Now, user) : Apply("fetch_user_emoji", user, NoId, r)

ScenarioNext == Request

Scenario == ScenarioInit /\ [][ScenarioNext]_vars

\* The emoji the step created is in the guild and Emoji has its row there
AllocatedIn(guild) ==
    /\ ret'.err = ""
    /\ ret'.emoji = next_id
    /\ [id |-> next_id, guild_id |-> guild, animated |-> FALSE] \in emojis'
    /\ \E row \in Emoji' : row.emoji_id = next_id /\ row.guild_id = guild

\* C15: from A (capacity 2) with two emoji, one of them the least recently
\* fetched of all, B (capacity 2) with one emoji and LEAVE_FREE = 0, the first
\* request of a new owner puts the new emoji into B and evicts nothing; the
\* next request evicts A's least recently fetched emoji, and nothing else, and
\* puts the new emoji into A.
C15_FillsBThenEvictsFromA ==
    [][/\ (call'.name = "fetch_user_emoji" /\ next_id = 4)
          => (evicted' = <<>> /\ AllocatedIn("B"))
       /\ (call'.name = "fetch_user_emoji" /\ next_id = 5)
          => /\ Len(evicted') = 1
             /\ evicted'[1].row \in Emoji
             /\ evicted'[1].row.guild_id = "A"
             /\ \A row \in Emoji : evicted'[1].row.last_fetched <= row.last_fetched
             /\ get_emoji(emojis', evicted'[1].row.emoji_id) = {}
             /\ AllocatedIn("A")]_vars

\* The second request has evicted an emoji of A that had an owner, and the new
\* emoji is in A
C15_Witness ==
    /\ call.name = "fetch_user_emoji"
    /\ next_id = 6
    /\ Len(evicted) = 1
    /\ evicted[1].owners # {}
    /\ evicted[1].row.guild_id = "A"
    /\ [id |-> 5, guild_id |-> "A", animated |-> FALSE] \in emojis
    /\ [id |-> 4, guild_id |-> "B", animated |-> FALSE] \in emojis

\* ---- C11 -----------------------------------------------------------------
\* The coroutine is inside the delete_emoji that _find_guild calls to evict
Evicting(t) ==
    /\ tasks[t].op = "_find_guild"
    /\ tasks[t].pc \in {"de_fetch_row", "de_get", "de_delete", "de_record"}

\* C11: when two concurrent _find_guild calls have read the same oldest row and
\* both go to evict it, neither call ends with an error in that eviction: for
\* the one that comes second the delete of the row and of the emoji is a no-op.
C11_DoubleEvictionCompletes ==
    [][\A t \in Tasks : \A s \in Tasks \ {t} :
          (/\ Evicting(t)
           /\ tasks[s].op = "_find_guild"
           /\ tasks[s].emoji_id = tasks[t].emoji_id)
             => tasks'[t].err = ""]_vars

\* ---- C12 -----------------------------------------------------------------
\* C12: in every interleaving of create_emoji calls, create_custom_emoji
\* reaches the platform only for a guild that has a free slot at that moment,
\* and every guild has used <= capacity in every state.
C12_CreateOnlyWithRoom ==
    [][/\ \A t \in Tasks :
             (tasks[t].pc = "create" /\ tasks'[t] # tasks[t])
                => free(tasks[t].guild, emojis) >= 1
       /\ \A guild \in Guilds : used(guild, emojis') <= emoji_limit(guild)]_vars

\* ---- C13 -----------------------------------------------------------------
\* C13: in every interleaving of fetch_user_emoji calls for one user,
\* UserEmoji holds at most one row for the user in every state, and
\* create_user_emoji never comes to insert a row for a user who has one.
C13_OneBindingPerOwner ==
    [][/\ \A t \in Tasks :
             (tasks[t].pc = "bind" /\ tasks'[t] # tasks[t])
                => fetch_user_row(UserEmoji, tasks[t].user) = {}
       /\ \A user \in Users : Cardinality(fetch_user_row(UserEmoji', user)) <= 1]_vars

\* ---- C14 -----------------------------------------------------------------
\* create_emoji has raised err; the platform had created the emoji, or not
Failed(t) == tasks[t].op = "create_emoji" /\ tasks[t].pc = "done" /\ tasks[t].err # ""

\* C14: a create_emoji call that fails after create_custom_emoji succeeded
\* ends otherwise than any create_emoji call that fails without an emoji
\* created: no two failed calls raise the same while one has created an emoji
\* and the other has not.
C14_PartialSuccessIsDistinct ==
    \A s \in Tasks : \A t \in Tasks :
        (Failed(s) /\ Failed(t) /\ tasks[s].err = tasks[t].err)
            => (tasks[s].emoji = NoId <=> tasks[t].emoji = NoId)

\* ---- C18 -----------------------------------------------------------------
\* C18: a fetch_emoji that has found its row writes last_fetched = now before
\* it asks whether the emoji is alive: while it stands between the two, the row
\* carries a time no earlier than the one written, and a _find_guild that reads
\* the oldest row meanwhile takes that row only if no row is older than the
\* time written.
C18_UpdatedBeforeLivenessCheck ==
    [][\A t \in Tasks :
          tasks[t].pc = "fe_get"
             => /\ \A row \in fetch_row(Emoji, tasks[t].emoji_id) :
                      row.last_fetched >= tasks[t].at
                /\ \A s \in Tasks \ {t} :
                      (/\ tasks[s].pc = "oldest"
                       /\ tasks'[s].pc = "de_fetch_row"
                       /\ tasks'[s].emoji_id = tasks[t].emoji_id)
                         => \A row \in Emoji : row.last_fetched >= tasks[t].at]_vars

\* A fetch_emoji stands between update and liveness check, its row carries the
\* time written, and a _find_guild has read the oldest row meanwhile and taken
\* an older one
C18_Witness ==
    \E t \in Tasks : \E s \in Tasks \ {t} :
        /\ tasks[t].op = "fetch_emoji"
        /\ tasks[t].pc = "fe_get"
        /\ tasks[s].op = "_find_guild"
        /\ tasks[s].pc = "de_fetch_row"
        /\ tasks[s].met = {tasks[t].emoji_id}
        /\ tasks[s].emoji_id # tasks[t].emoji_id
        /\ \E mine \in fetch_row(Emoji, tasks[t].emoji_id) :
           \E other \in fetch_row(Emoji, tasks[s].emoji_id) :
              /\ mine.last_fetched = tasks[t].at
              /\ other.last_fetched < mine.last_fetched

\* ---- C19 -----------------------------------------------------------------
\* C19: a _find_guild call makes at most as many evictions as Emoji had rows
\* when it was called, and it ends by returning a guild or by raising
\* "Emoji cache simultaneously empty and full.".
C19_EvictionsBounded ==
    \A t \in Tasks :
        tasks[t].op = "_find_guild"
            => /\ tasks[t].cap >= 0
               /\ tasks[t].pc = "done" => tasks[t].err \in {"", "RuntimeError"}

\* ---- C22 -----------------------------------------------------------------
\* C22: a delete_emoji(id) that finds a row for id ends without a row and
\* without a live emoji for id, succeeds also when the emoji was gone before
\* the call, and leaves the rows of every other emoji as they were.
C22_DeleteRemovesRowAndEmoji ==
    [][(call'.name = "delete_emoji" /\ fetch_row(Emoji, call'.emoji_id) # {})
          => /\ ret'.err = ""
             /\ fetch_row(Emoji', call'.emoji_id) = {}
             /\ get_emoji(emojis', call'.emoji_id) = {}
             /\ {r \in Emoji' : r.emoji_id # call'.emoji_id}
                   = {r \in Emoji : r.emoji_id # call'.emoji_id}]_vars

\* delete_emoji has succeeded on a row whose emoji was gone before the call,
\* with the row of another emoji in the table
C22_Witness ==
    /\ call.name = "delete_emoji"
    /\ call.absent
    /\ ret.err = ""
    /\ Emoji # {}

\* ---- utils/strings.py: _transpose ----------------------------------------
\* The emoji cache untouched: nothing created, nothing stored
CacheIdle ==
    /\ emojis = Animated
    /\ Emoji = {}
    /\ UserEmoji = {}
    /\ pool = Guilds
    /\ leave_free = 0
    /\ clock = 0
    /\ next_id = 1
    /\ call = NoCall
    /\ ret = NoRet
    /\ evicted = <<>>
    /\ touched = FALSE
    /\ evictee = {}
    /\ emoji_limits = Tiers
    /\ tasks = [t \in Tasks |-> Idle]

\* _items_in_col(n_items, cols): the first n_items % cols columns hold one item
\* more than the others
_items_in_col(n_items, cols) ==
    [j \in 1..cols |-> IF j <= n_items % cols THEN (n_items \div cols) + 1
                       ELSE n_items \div cols]

\* *per_col, _ = _items_in_col(...); per_col = (*per_col, per_col[0]):
\* the last count is dropped and the first is put in its place
per_col_of(n_items, cols) ==
    LET counts == _items_in_col(n_items, cols) IN
    [j \in 1..cols |-> IF j < cols THEN counts[j] ELSE counts[1]]

\* The items handed to _transpose: n items, told apart by their position
ItemLists == {[p \in 1..n |-> p] : n \in 0..MaxItems}

\* _transpose(items, columns) is called
TransposeInit ==
    /\ CacheIdle
    /\ ctx = NoCtx
    /\ interaction = NoInteraction
    /\ TimeZones = NoTimeZones
    /\ slash = NoSlash
    /\ login = NoLogin
    /\ \E items \in ItemLists, columns \in 1..MaxColumns :
          transpose = [NoTranspose EXCEPT !.items = items, !.columns = columns,
                                          !.pc = "start"]

\* result = []; per_col = ...; i = 0. With one column nothing is left of
\* per_col after the last count is dropped, and per_col[0] raises IndexError
transpose_enter ==
    /\ transpose.pc = "start"
    /\ transpose' =
          IF transpose.columns < 2
          THEN [transpose EXCEPT !.err = "IndexError", !.pc = "done"]
          ELSE [transpose EXCEPT
                  !.per_col = per_col_of(Len(transpose.items), transpose.columns),
                  !.pc = "loop"]
    /\ UNCHANGED <<cache, ctx, interaction, TimeZones, slash, login>>

\* One pass of the loop: result.append(items[i]); i = (i + ts) % len(items),
\* with ts the next of cycle(per_col)
transpose_append ==
    /\ transpose.pc = "loop"
    /\ Len(transpose.result) < Len(transpose.items)
    /\ LET ts == transpose.per_col[(Len(transpose.result) % transpose.columns) + 1] IN
       transpose' =
          [transpose EXCEPT
             !.result = Append(@, transpose.items[transpose.i + 1]),
             !.i = (@ + ts) % Len(transpose.items)]
    /\ UNCHANGED <<cache, ctx, interaction, TimeZones, slash, login>>

\* return result, after len(items) passes
transpose_return ==
    /\ transpose.pc = "loop"
    /\ Len(transpose.result) = Len(transpose.items)
    /\ transpose' = [transpose EXCEPT !.pc = "done"]
    /\ UNCHANGED <<cache, ctx, interaction, TimeZones, slash, login>>

TransposeNext == transpose_enter \/ transpose_append \/ transpose_return

Transpose == TransposeInit /\ [][TransposeNext]_vars

\* ---- C23 -----------------------------------------------------------------
\* C23: for every list of items and every number of columns from 2 on,
\* _transpose returns a permutation of the items: as many as it was given, and
\* every position of the input exactly once.
C23_TransposePermutes ==
    (transpose.pc = "done" /\ transpose.columns >= 2)
       => /\ transpose.err = ""
          /\ Len(transpose.result) = Len(transpose.items)
          /\ \A p \in 1..Len(transpose.items) :
                Cardinality({k \in 1..Len(transpose.result) :
                                transpose.result[k] = transpose.items[p]}) = 1

\* ---- cogs/core/info.py: the channel commands -----------------------------
\* The channels the bot sees: their class, their guild, and the category of
\* the text channels. The commands are sent in guild G.
Channels == {"text1", "text2", "text3", "voice1", "stage1", "category1", "store1"}

kind(channel) ==
    CASE channel \in {"text1", "text2", "text3"} -> "TextChannel"
      [] channel = "voice1" -> "VoiceChannel"
      [] channel = "stage1" -> "StageChannel"
      [] channel = "category1" -> "CategoryChannel"
      [] channel = "store1" -> "StoreChannel"
      [] OTHER -> "NoneType"

\* channel.guild
guild_of(channel) == IF channel = "text3" THEN "H" ELSE "G"

\* channel.category
category_of(channel) == IF channel = "text1" THEN "category1" ELSE NoChannel

\* types.VocalGuildChannel
VocalGuildChannel == {"VoiceChannel", "StageChannel"}

\* The annotation of the parameter channel of every channel command: the
\* converter hands the command a channel of one of these classes, or None
Annotation ==
    [channel_info |-> VocalGuildChannel \cup {"TextChannel", "CategoryChannel", "StoreChannel"},
     text_channel_info |-> {"TextChannel"},
     vocal_channel_info |-> VocalGuildChannel,
     voice_channel_info |-> {"VoiceChannel"},
     stage_channel_info |-> {"StageChannel"},
     category_channel_info |-> {"CategoryChannel"}]

\* A member sends one of the channel commands in a text channel of G
ChannelInfoInit ==
    /\ CacheIdle
    /\ transpose = NoTranspose
    /\ interaction = NoInteraction
    /\ TimeZones = NoTimeZones
    /\ slash = NoSlash
    /\ login = NoLogin
    /\ \E command \in DOMAIN Annotation,
          channel \in Channels \cup {NoChannel},
          here \in {"text1", "text2"},
          voice \in {NoChannel, "voice1", "stage1"},
          in_guild \in BOOLEAN :
          /\ channel # NoChannel => kind(channel) \in Annotation[command]
          /\ ctx = [NoCtx EXCEPT !.command = command, !.arg = channel,
                                 !.channel = channel, !.here = here, !.voice = voice,
                                 !.in_guild = in_guild, !.pc = command]

\* raise commands.BadArgument(...)
Raise(err) == ctx' = [ctx EXCEPT !.err = err, !.pc = "done"]

\* ctx.invoke(command, channel=channel)
Invoke(command, channel) == ctx' = [ctx EXCEPT !.channel = channel, !.pc = command]

\* channel.guild != ctx.guild and not await ctx.user_in_guild(channel.guild);
\* then embed = self._..._channel_info(channel); await ctx.send(embed=embed)
Send(embed, channel) ==
    IF guild_of(channel) # "G" /\ ~ctx.in_guild
    THEN Raise("BadArgument")
    ELSE ctx' = [ctx EXCEPT !.channel = channel, !.reply = <<embed, channel>>,
                            !.pc = "done"]

\* Info.channel_info
channel_info ==
    /\ ctx.pc = "channel_info"
    /\ CASE kind(ctx.channel) = "TextChannel" -> Invoke("text_channel_info", ctx.channel)
         [] kind(ctx.channel) \in VocalGuildChannel -> Invoke("vocal_channel_info", ctx.channel)
         [] kind(ctx.channel) = "CategoryChannel" ->
                Invoke("category_channel_info", ctx.channel)
         [] OTHER -> Raise("BadArgument")
    /\ UNCHANGED <<cache, transpose, interaction, TimeZones, slash, login>>

\* Info.text_channel_info
text_channel_info ==
    /\ ctx.pc = "text_channel_info"
    /\ LET channel == IF ctx.channel # NoChannel THEN ctx.channel ELSE ctx.here IN
       Send("text", channel)
    /\ UNCHANGED <<cache, transpose, interaction, TimeZones, slash, login>>

\* Info.vocal_channel_info
vocal_channel_info ==
    /\ ctx.pc = "vocal_channel_info"
    /\ LET channel == IF ctx.channel = NoChannel THEN ctx.voice ELSE ctx.channel IN
       CASE channel = NoChannel -> Raise("BadArgument")
         [] kind(channel) = "VoiceChannel" -> Invoke("voice_channel_info", channel)
         [] kind(channel) = "StageChannel" -> Invoke("stage_channel_info", channel)
         [] OTHER -> Raise("BadArgument")
    /\ UNCHANGED <<cache, transpose, interaction, TimeZones, slash, login>>

\* Info.voice_channel_info
voice_channel_info ==
    /\ ctx.pc = "voice_channel_info"
    /\ LET channel == IF ctx.channel = NoChannel THEN ctx.voice ELSE ctx.channel IN
       IF kind(channel) # "VoiceChannel"
       THEN Raise("BadArgument")
       ELSE Send("vocal", channel)
    /\ UNCHANGED <<cache, transpose, interaction, TimeZones, slash, login>>

\* Info.stage_channel_info
stage_channel_info ==
    /\ ctx.pc = "stage_channel_info"
    /\ LET channel == IF ctx.channel = NoChannel THEN ctx.voice ELSE ctx.channel IN
       IF kind(channel) # "StageChannel"
       THEN Raise("BadArgument")
       ELSE Send("vocal", channel)
    /\ UNCHANGED <<cache, transpose, interaction, TimeZones, slash, login>>

\* Info.category_channel_info
category_channel_info ==
    /\ ctx.pc = "category_channel_info"
    /\ LET channel == IF ctx.channel # NoChannel THEN ctx.channel
                      ELSE category_of(ctx.here) IN
       IF channel = NoChannel
       THEN Raise("BadArgument")
       ELSE Send("category", channel)
    /\ UNCHANGED <<cache, transpose, interaction, TimeZones, slash, login>>

ChannelInfoNext ==
    \/ channel_info
    \/ text_channel_info
    \/ vocal_channel_info
    \/ voice_channel_info
    \/ stage_channel_info
    \/ category_channel_info

ChannelInfo == ChannelInfoInit /\ [][ChannelInfoNext]_vars

\* ---- C21 -----------------------------------------------------------------
\* C21: channel_info called without a channel takes the text channel the
\* command was sent in and replies with the information on that channel; it
\* does not fail with BadArgument.
C21_DefaultsToTextChannel ==
    (ctx.command = "channel_info" /\ ctx.arg = NoChannel /\ ctx.pc = "done")
       => /\ ctx.err = ""
          /\ ctx.reply = <<"text", ctx.here>>

\* ---- utils/interactions.py: send_message, error --------------------------
\* The keyword arguments a caller may give send_message
Keywords == {"content", "embed", "ephemeral"}

\* send_message(interaction, **kwargs): the send function is chosen by
\* interaction.response.is_done() when send_message is called; for
\* followup.send, kwargs.pop("ephemeral") raises KeyError when the caller gave
\* no ephemeral. What comes back is the coroutine send_func(**kwargs), not yet
\* run. Of every call the model keeps: the kwargs given, whether the response
\* was done, the function chosen, the kwargs handed to it, and how it ended.
send_message(kwargs) ==
    LET via == IF interaction.done THEN "followup" ELSE "response" IN
    [kwargs |-> kwargs,
     was_done |-> interaction.done,
     via |-> via,
     passed |-> IF via = "followup" THEN kwargs \ {"ephemeral"} ELSE kwargs,
     state |-> IF via = "followup" /\ "ephemeral" \notin kwargs THEN "raised" ELSE "created",
     err |-> IF via = "followup" /\ "ephemeral" \notin kwargs THEN "KeyError" ELSE "",
     description |-> <<>>]

\* The error messages of the slash command timezone get
BothGiven == <<"You can't specify both a timezone and a user.">>
NoneSet(user) == <<user, " does not have a time zone set.">>
Messages == {BothGiven} \cup {NoneSet(user) : user \in Members}

\* error(interaction, message): send_message(interaction, embed=..., ephemeral=True)
\* with message as the description of the embed
error(message) ==
    [send_message({"embed", "ephemeral"}) EXCEPT !.description = message]

\* A command starts on an interaction; its response may have been made or
\* deferred already
InteractionInit ==
    /\ CacheIdle
    /\ transpose = NoTranspose
    /\ ctx = NoCtx
    /\ TimeZones = NoTimeZones
    /\ slash = NoSlash
    /\ login = NoLogin
    /\ \E done \in BOOLEAN : interaction = [NoInteraction EXCEPT !.done = done]

\* The call of a helper, kept with the helper's name
Called(by, send) == ("by" :> by) @@ send

\* The command calls send_message
SendMessage ==
    /\ Len(interaction.sends) < MaxSends
    /\ \E kwargs \in SUBSET Keywords :
          interaction' = [interaction EXCEPT
                            !.sends = Append(@, Called("send_message", send_message(kwargs)))]
    /\ UNCHANGED <<cache, transpose, ctx, TimeZones, slash, login>>

\* The command calls error
Error ==
    /\ Len(interaction.sends) < MaxSends
    /\ \E message \in Messages :
          interaction' = [interaction EXCEPT
                            !.sends = Append(@, Called("error", error(message)))]
    /\ UNCHANGED <<cache, transpose, ctx, TimeZones, slash, login>>

\* The command awaits a coroutine that send_message returned.
\* response.send_message raises InteractionResponded when the response is done,
\* and makes it done otherwise; followup.send sends.
Await ==
    /\ \E j \in 1..Len(interaction.sends) :
          /\ interaction.sends[j].state = "created"
          /\ interaction' =
                IF interaction.sends[j].via = "response" /\ interaction.done
                THEN [interaction EXCEPT !.sends[j].state = "raised",
                                         !.sends[j].err = "InteractionResponded"]
                ELSE [interaction EXCEPT !.sends[j].state = "sent", !.done = TRUE]
    /\ UNCHANGED <<cache, transpose, ctx, TimeZones, slash, login>>

InteractionNext == SendMessage \/ Error \/ Await

Interaction == InteractionInit /\ [][InteractionNext]_vars

Zones == {"UTC", "Europe/Paris"}

\* The command is invoked: a new interaction, nothing sent on it yet
TimezoneGetInit ==
    /\ CacheIdle
    /\ transpose = NoTranspose
    /\ ctx = NoCtx
    /\ interaction = NoInteraction
    /\ login = NoLogin
    /\ TimeZones \in [Members -> Zones \cup {NoZone}]
    /\ \E timezone \in Zones \cup {NoZone}, user \in Members \cup {NoUser},
          private \in BOOLEAN :
          slash = [NoSlash EXCEPT !.args = [timezone |-> timezone, user |-> user],
                                  !.timezone = timezone, !.user = user,
                                  !.private = private, !.pc = "get"]

\* return await error(interaction, message): the call, which the Await step
\* then runs
ReturnError(message) ==
    /\ interaction' = [interaction EXCEPT
                         !.sends = Append(@, Called("error", error(message)))]
    /\ slash' = [slash EXCEPT !.pc = "return"]

\* get that asks the store before it looks at its arguments
get_lookup_first ==
    /\ slash.pc = "get"
    /\ slash' = [slash EXCEPT
                   !.user = IF @ = NoUser THEN "invoker" ELSE @,
                   !.timezone = NoZone,
                   !.pc = "lookup"]
    /\ UNCHANGED <<cache, transpose, ctx, interaction, TimeZones, login>>

\* _Timezone.get, lines 124-133: with a timezone and a user the error reply;
\* with a timezone the embed of the time there; with none the user, who is the
\* invoking user if none was given, is looked up next
get ==
    /\ slash.pc = "get"
    /\ IF slash.timezone # NoZone
       THEN IF slash.user # NoUser
            THEN ReturnError(BothGiven)
            ELSE /\ slash' = [slash EXCEPT !.embed = <<"Time in", slash.timezone>>,
                                           !.pc = "send"]
                 /\ UNCHANGED interaction
       ELSE /\ slash' = [slash EXCEPT
                           !.user = IF @ = NoUser THEN "invoker" ELSE @,
                           !.pc = "lookup"]
            /\ UNCHANGED interaction
    /\ UNCHANGED <<cache, transpose, ctx, TimeZones, login>>

\* lines 135-143: timezone = await TimeZones.get_timezone(connection, user) on
\* a connection of the pool; without one the error reply, else the embed
get_timezone ==
    /\ slash.pc = "lookup"
    /\ LET timezone == TimeZones[slash.user] IN
       IF timezone = NoZone
       THEN /\ interaction' = [interaction EXCEPT
                    !.sends = Append(@, Called("error", error(NoneSet(slash.user))))]
            /\ slash' = [slash EXCEPT !.looked_up = Append(@, slash.user),
                                      !.pc = "return"]
       ELSE /\ slash' = [slash EXCEPT
                           !.looked_up = Append(@, slash.user),
                           !.timezone = timezone,
                           !.embed = <<"Time for", slash.user, timezone>>,
                           !.pc = "send"]
            /\ UNCHANGED interaction
    /\ UNCHANGED <<cache, transpose, ctx, TimeZones, login>>

\* line 145: await interaction.response.send_message(embed=embed, ephemeral=private)
get_send ==
    /\ slash.pc = "send"
    /\ interaction' =
          [interaction EXCEPT
             !.sends = Append(@,
                [by |-> "get", kwargs |-> {"embed", "ephemeral"},
                 was_done |-> interaction.done, via |-> "response",
                 passed |-> {"embed", "ephemeral"},
                 state |-> IF interaction.done THEN "raised" ELSE "sent",
                 err |-> IF interaction.done THEN "InteractionResponded" ELSE "",
                 description |-> slash.embed]),
             !.done = TRUE]
    /\ slash' = [slash EXCEPT !.pc = "done"]
    /\ UNCHANGED <<cache, transpose, ctx, TimeZones, login>>

\* The error reply was awaited: get returns
get_return ==
    /\ slash.pc = "return"
    /\ \A j \in 1..Len(interaction.sends) : interaction.sends[j].state # "created"
    /\ slash' = [slash EXCEPT !.pc = "done"]
    /\ UNCHANGED <<cache, transpose, ctx, interaction, TimeZones, login>>

TimezoneGetNext == get \/ get_timezone \/ get_send \/ Await \/ get_return

TimezoneGet == TimezoneGetInit /\ [][TimezoneGetNext]_vars

\* ---- C26 -----------------------------------------------------------------
\* What was sent on the interaction is the one error reply with this message
OnlyError(message) ==
    /\ Len(interaction.sends) = 1
    /\ interaction.sends[1].by = "error"
    /\ interaction.sends[1].state = "sent"
    /\ interaction.sends[1].description = message

\* C26: timezone get called with a timezone and a user sends only the error
\* reply "You can't specify both a timezone and a user." and does not go to the
\* store; called with neither it looks up the stored time zone of the invoking
\* user, and sends an error reply and no time when none is stored.
C26_GetRepliesWithErrors ==
    slash.pc = "done" =>
       /\ (slash.args.timezone # NoZone /\ slash.args.user # NoUser)
             => (OnlyError(BothGiven) /\ slash.looked_up = <<>>)
       /\ (slash.args.timezone = NoZone /\ slash.args.user = NoUser)
             => /\ slash.looked_up = <<"invoker">>
                /\ TimeZones["invoker"] = NoZone => OnlyError(NoneSet("invoker"))

\* get was called without arguments by a user who has stored no time zone,
\* and has returned
C26_Witness ==
    /\ slash.pc = "done"
    /\ slash.args = [timezone |-> NoZone, user |-> NoUser]
    /\ TimeZones["invoker"] = NoZone
    /\ slash.looked_up # <<>>
    /\ interaction.sends # <<>>

\* ---- web/auth.py: validate_login -----------------------------------------
\* The HTTP statuses the platform answers with
Statuses == {200, 400, 401, 500}

\* A request comes in, with or without a code. What the platform will answer is
\* fixed from the start: the token exchange with any status, with or without
\* an access_token in its body; the identity lookup with the user (status 200)
\* or with an error body, which has no "id"
LoginInit ==
    /\ CacheIdle
    /\ transpose = NoTranspose
    /\ ctx = NoCtx
    /\ interaction = NoInteraction
    /\ TimeZones = NoTimeZones
    /\ slash = NoSlash
    /\ \E code \in BOOLEAN, status \in Statuses, access_token \in BOOLEAN,
          me \in Statuses \ {400} :
          login = [NoLogin EXCEPT
                     !.code = code,
                     !.token = [status |-> status, access_token |-> access_token],
                     !.me = [status |-> me, id |-> me = 200],
                     !.pc = "validate_login"]

\* raise HTTPUnauthorized, or any other exception
Raises(err) == login' = [login EXCEPT !.err = err, !.pc = "done"]

\* lines 21-22: if "code" not in request.query: raise HTTPUnauthorized
validate_login ==
    /\ login.pc = "validate_login"
    /\ IF ~login.code
       THEN Raises("HTTPUnauthorized")
       ELSE login' = [login EXCEPT !.pc = "post"]
    /\ UNCHANGED <<cache, transpose, ctx, interaction, TimeZones, slash>>

\* lines 35-37: session.post(uri, data=payload); if resp.status != 200: raise
post ==
    /\ login.pc = "post"
    /\ IF login.token.status # 200
       THEN Raises("HTTPUnauthorized")
       ELSE login' = [login EXCEPT !.pc = "json"]
    /\ UNCHANGED <<cache, transpose, ctx, interaction, TimeZones, slash>>

\* lines 39-42: data = await resp.json(); if "access_token" not in data: raise
json ==
    /\ login.pc = "json"
    /\ IF ~login.token.access_token
       THEN Raises("HTTPUnauthorized")
       ELSE login' = [login EXCEPT !.pc = "me"]
    /\ UNCHANGED <<cache, transpose, ctx, interaction, TimeZones, slash>>

\* lines 44-48: session.get(uri, headers=...); result = await resp.json();
\* return result["id"]. The status of this answer is not looked at, and a body
\* without "id" raises KeyError
users_me ==
    /\ login.pc = "me"
    /\ IF ~login.me.id
       THEN Raises("KeyError")
       ELSE login' = [login EXCEPT !.returned = "id", !.pc = "done"]
    /\ UNCHANGED <<cache, transpose, ctx, interaction, TimeZones, slash>>

LoginNext == validate_login \/ post \/ json \/ users_me

Login == LoginInit /\ [][LoginNext]_vars

\* ---- C25 -----------------------------------------------------------------
\* C25: validate_login returns a user id only when the request has a code, the
\* token exchange answered 200 with an access_token and the identity lookup
\* with that token succeeded; in every other case it raises HTTPUnauthorized
\* and returns no identity.
C25_IdentityOrUnauthorized ==
    login.pc = "done" =>
       IF /\ login.code
          /\ login.token.status = 200
          /\ login.token.access_token
          /\ login.me.status = 200
       THEN login.returned = "id" /\ login.err = ""
       ELSE login.returned = "None" /\ login.err = "HTTPUnauthorized"
====
